---- MODULE Spec2Model ----
(***************************************************************************)
(* A model of the TOML encoder of src/toml/encoder.py: the string          *)
(* formatter _dump_str, the value dispatcher, the table flattening engine  *)
(* TomlEncoder.dump_sections and the layering driver dumps with its cycle  *)
(* guard.                                                                  *)
(*                                                                         *)
(* Text is modelled at two levels.  A string value or a key is a sequence  *)
(* of characters (one-character TLA+ strings, CTL standing for the control *)
(* character U+0001).  The document is a sequence of lines; a line is a    *)
(* record holding the key texts and the value text it is made of, so that  *)
(* the tests the code performs on the text (first character, the last two  *)
(* characters, emptiness) are decided by the line kinds.                   *)
(***************************************************************************)
EXTENDS Integers, Sequences, FiniteSets, TLC

VARIABLES
    heap,        \* the caller's value tree: object id -> sequence of entries
    inl,         \* ids of the mappings that are InlineTableDict instances
    nalloc,      \* number of mapping objects the caller has created
    preserve,    \* TomlEncoder.preserve of the encoder in use
    pc,          \* "build" | "call" | "loop" | "done" | "str" | "strdone"
    retval,      \* dumps: the text built so far
    sections,    \* dumps: the ordered dict of the layer to flatten next
    outer_objs,  \* dumps: ids of every container flattened so far
    status,      \* "none" while running, then "ok" or the exception raised
    strIn,       \* the argument of _dump_str
    strOut       \* its result ("none" before the call)

vars == <<heap, inl, nalloc, preserve, pc, retval, sections,
          outer_objs, status, strIn, strOut>>

(***************************************************************************)
(* Characters                                                              *)
(***************************************************************************)
BS  == "\\"
DQ  == "\""
SQ  == "'"
NL  == "\n"
CTL == "^A"

Range(s) == {s[i] : i \in 1..Len(s)}

Max(S) == CHOOSE m \in S : \A n \in S : n <= m

\* s[i..] and s[..i] in the 1-based indexing of Sequences
Drop(s, n) == SubSeq(s, n + 1, Len(s))
Take(s, n) == SubSeq(s, 1, n)

StartsWith(s, p) == Len(s) >= Len(p) /\ Take(s, Len(p)) = p

(***************************************************************************)
(* Python's str.replace and str.split: leftmost, non-overlapping.          *)
(***************************************************************************)
RECURSIVE Replace(_, _, _)
Replace(s, old, new) ==
    IF s = <<>> THEN <<>>
    ELSE IF StartsWith(s, old) THEN new \o Replace(Drop(s, Len(old)), old, new)
    ELSE <<Head(s)>> \o Replace(Tail(s), old, new)

\* Split(s, sep, cur): the segments of cur \o s, cur being the segment open so far
RECURSIVE Split(_, _, _)
Split(s, sep, cur) ==
    IF s = <<>> THEN <<cur>>
    ELSE IF StartsWith(s, sep) THEN <<cur>> \o Split(Drop(s, Len(sep)), sep, <<>>)
    ELSE Split(Tail(s), sep, Append(cur, Head(s)))

(***************************************************************************)
(* repr() of a str, as "%r" % v gives it: single quotes unless the string  *)
(* holds a single quote and no double quote; backslash doubled, the quote  *)
(* in use escaped, newline as \n, a control character as \xNN.             *)
(***************************************************************************)
ReprQuote(v) == IF SQ \in Range(v) /\ DQ \notin Range(v) THEN DQ ELSE SQ

ReprChar(c, q) ==
    IF c = BS THEN <<BS, BS>>
    ELSE IF c = q THEN <<BS, c>>
    ELSE IF c = NL THEN <<BS, "n">>
    ELSE IF c = CTL THEN <<BS, "x", "0", "1">>
    ELSE <<c>>

RECURSIVE ReprBody(_, _)
ReprBody(v, q) ==
    IF v = <<>> THEN <<>> ELSE ReprChar(Head(v), q) \o ReprBody(Tail(v), q)

Repr(v) == <<ReprQuote(v)>> \o ReprBody(v, ReprQuote(v)) \o <<ReprQuote(v)>>

(***************************************************************************)
(* _dump_str                                                               *)
(***************************************************************************)
IndexError == <<"IndexError">>

\* no list of segments: a subscript of the loop was out of range
NoSegments == <<>>

\* the inner loop: while v[0][:i] and v[0][i] == "\\": joinx = not joinx; i -= 1
\* n is -i; v[0][:i] is non-empty iff Len(v0) > n, and v[0][i] is v0[Len(v0)-n+1]
RECURSIVE JoinxLoop(_, _, _)
JoinxLoop(v0, n, joinx) ==
    IF Len(v0) > n /\ v0[Len(v0) - n + 1] = BS
    THEN JoinxLoop(v0, n + 1, ~joinx)
    ELSE joinx

Joiner(joinx) == IF joinx THEN <<"x">> ELSE <<"u", "0", "0">>

\* the loop "while len(v) > 1" over the list of segments; IndexError if a
\* subscript is out of range (NoSegments)
RECURSIVE DumpStrLoop(_)
DumpStrLoop(v) ==
    IF Len(v) <= 1 THEN v
    ELSE LET v1 == IF v[1] = <<>> THEN Tail(v) ELSE v
             v0 == Replace(v1[1], <<BS, BS>>, <<BS>>)
         IN  IF v0 = <<>> THEN NoSegments
             ELSE LET joinx == JoinxLoop(v0, 1, v0[Len(v0)] # BS)
                  IN  IF Len(v1) < 2 THEN NoSegments
                      ELSE DumpStrLoop(<<v0 \o Joiner(joinx) \o v1[2]>>
                                       \o Drop(v1, 2))

DumpStrUnquote(r) ==
    LET singlequote == StartsWith(r, <<SQ>>)
        body == IF singlequote \/ StartsWith(r, <<DQ>>)
                THEN SubSeq(r, 2, Len(r) - 1) ELSE r
    IN  IF singlequote
        THEN Replace(Replace(body, <<BS, SQ>>, <<SQ>>), <<DQ>>, <<BS, DQ>>)
        ELSE body

\* the text _dump_str returns, or IndexError
DumpStr(v) ==
    LET segs == DumpStrLoop(Split(DumpStrUnquote(Repr(v)), <<BS, "x">>, <<>>))
    IN  IF segs = NoSegments THEN IndexError
        ELSE <<DQ>> \o segs[1] \o <<DQ>>

(***************************************************************************)
(* Bounds of the model                                                     *)
(***************************************************************************)
NumObjs   == 3      \* mapping objects the caller may create
MaxSize   == 3      \* size of the whole value tree (see Cost)
MaxList   == 2      \* elements of one list
MaxStrLen == 6      \* characters of an argument of _dump_str

(***************************************************************************)
(* The value tree.  A value is a record [t, ref, elems]:                   *)
(*   t = "int"   the integer 1          t = "none"  None                   *)
(*   t = "map"   the mapping heap[ref]  t = "list"  the list of elems      *)
(*   t = "key"   the string elems (a key of a mapping, as a value)         *)
(* The mapping handed to dumps is heap[Obj].                               *)
(* A mapping is the sequence of its entries [key, val] in iteration order. *)
(***************************************************************************)
IntVal     == [t |-> "int", ref |-> 0, elems |-> <<>>]
NoneVal    == [t |-> "none", ref |-> 0, elems |-> <<>>]
KeyVal(k)  == [t |-> "key", ref |-> 0, elems |-> k]
MapVal(r)  == [t |-> "map", ref |-> r, elems |-> <<>>]
ListVal(e) == [t |-> "list", ref |-> 0, elems |-> e]

Objs == 1..NumObjs

\* the id of obj, the argument of dumps: the first mapping created
Obj == 1

\* what a list may hold: integers and mappings
Elems == {IntVal} \cup {MapVal(r) : r \in Objs}

Lists == UNION {[1..n -> Elems] : n \in 0..MaxList}

Vals == {IntVal, NoneVal} \cup {MapVal(r) : r \in Objs}
        \cup {ListVal(e) : e \in Lists}

\* the keys of the model: one bare key and one that needs quotes
Keys == {<<"a">>, <<"b", " ">>}

\* the mappings a value refers to directly
Refs(v) == IF v.t = "map" THEN {v.ref}
           ELSE {v.elems[j].ref : j \in {i \in 1..Len(v.elems) : v.elems[i].t = "map"}}

\* an entry counts for one, a list of several elements for as many
Cost(v) == IF v.t = "list" /\ v.elems # <<>> THEN Len(v.elems) ELSE 1

RECURSIVE SumCost(_)
SumCost(es) == IF es = <<>> THEN 0 ELSE Cost(Head(es).val) + SumCost(Tail(es))

RECURSIVE SizeUpTo(_)
SizeUpTo(n) == IF n = 0 THEN 0 ELSE SumCost(heap[n]) + SizeUpTo(n - 1)

Size == SizeUpTo(NumObjs)

\* the values the tree has room for
Affordable == LET room == MaxSize - Size IN {v \in Vals : Cost(v) <= room}

KeysOf(o) == {heap[o][i].key : i \in 1..Len(heap[o])}

(***************************************************************************)
(* Results.  A function of the encoder returns a record whose err is       *)
(* "none" or the name of the exception it raised.                          *)
(***************************************************************************)
Text(t)       == [err |-> "none", txt |-> t, keys |-> <<>>]
Raise(e)      == [err |-> e, txt |-> <<>>, keys |-> <<>>]
OfStr(t)      == IF t = IndexError THEN Raise("IndexError") ELSE Text(t)

(***************************************************************************)
(* Value dispatcher: get_dump_function, dump_value, dump_list.             *)
(* int -> str(v); str -> _dump_str; list -> dump_list; a dict is Iterable, *)
(* so dump_list runs over its keys; None matches nothing and falls back to *)
(* _dump_str, whose "%r" gives None without quotes.                        *)
(***************************************************************************)
NoneText == <<DQ, "N", "o", "n", "e", DQ>>

RECURSIVE dump_value(_)
RECURSIVE dump_list(_, _)

\* the loop of dump_list over the items us, acc being retval so far
dump_list(us, acc) ==
    IF us = <<>> THEN Text(acc \o <<"]">>)
    ELSE LET r == dump_value(Head(us))
         IN  IF r.err # "none" THEN r
             ELSE dump_list(Tail(us), acc \o <<" ">> \o r.txt \o <<",">>)

KeyVals(o) == [i \in 1..Len(heap[o]) |-> KeyVal(heap[o][i].key)]

dump_value(v) ==
    CASE v.t = "int"  -> Text(<<"1">>)
      [] v.t = "key"  -> OfStr(DumpStr(v.elems))
      [] v.t = "none" -> Text(NoneText)
      [] v.t = "list" -> dump_list(v.elems, <<"[">>)
      [] v.t = "map"  -> dump_list(KeyVals(v.ref), <<"[">>)

(***************************************************************************)
(* dump_inline_table: a dict becomes { k = v, ... } with a line break      *)
(* after the closing brace, recursively; the keys k are written as they    *)
(* are.  keys collects the key texts written.  A chain of more than        *)
(* NumObjs nested dicts repeats one of them, so the recursion never ends:  *)
(* RecursionError.                                                         *)
(***************************************************************************)
RECURSIVE dump_inline_table(_, _)
RECURSIVE InlineItems(_, _, _, _)

\* the loop over section.items() from entry i on; acc is val_list joined so far
InlineItems(o, i, depth, acc) ==
    IF i > Len(heap[o]) THEN acc
    ELSE LET k == heap[o][i].key
             val == dump_inline_table(heap[o][i].val, depth + 1)
         IN  IF val.err # "none" THEN val
             ELSE InlineItems(o, i + 1, depth,
                    [err  |-> "none",
                     txt  |-> acc.txt \o (IF i > 1 THEN <<",", " ">> ELSE <<>>)
                              \o k \o <<" ", "=", " ">> \o val.txt,
                     keys |-> acc.keys \o <<k>> \o val.keys])

dump_inline_table(section, depth) ==
    IF section.t = "map"
    THEN IF depth > NumObjs THEN Raise("RecursionError")
         ELSE LET items == InlineItems(section.ref, 1, depth, Text(<<>>))
              IN  IF items.err # "none" THEN items
                  ELSE [err  |-> "none",
                        txt  |-> <<"{", " ">> \o items.txt \o <<" ", "}", NL>>,
                        keys |-> items.keys]
    ELSE dump_value(section)

(***************************************************************************)
(* Lines of text.  keys are the key texts the line holds (the segments of  *)
(* a header, the key of an assignment followed by the keys inside an       *)
(* inline table), txt the value text of an assignment.  at and ix record   *)
(* where the line comes from: the place in the value tree of the mapping   *)
(* it belongs to and the position of its key in that mapping.  A place is  *)
(* a sequence of steps [seg, idx]: seg the key text as written in headers, *)
(* idx the position in an array of tables (0 for a plain table).  The      *)
(* dotted strings the code builds (sup, the keys of sections and of d) are *)
(* such sequences; the code compares and writes only their seg parts.      *)
(***************************************************************************)
Step(q, j) == [seg |-> q, idx |-> j]
Segs(path) == [i \in 1..Len(path) |-> path[i].seg]

KV(q, r, sup, i)  == [k |-> "kv", keys |-> <<q>>, txt |-> r.txt, at |-> sup, ix |-> i]
INL(q, r, sup, i) == [k |-> "inl", keys |-> <<q>> \o r.keys, txt |-> r.txt,
                      at |-> sup, ix |-> i]
HDR(path)         == [k |-> "hdr", keys |-> Segs(path), txt |-> <<>>, at |-> path, ix |-> 0]
AHDR(path)        == [k |-> "ahdr", keys |-> Segs(path), txt |-> <<>>, at |-> path, ix |-> 0]
BLANK             == [k |-> "nl", keys |-> <<>>, txt |-> <<>>, at |-> <<>>, ix |-> 0]

\* s[0] == "[": every line of a kind other than a header starts with its
\* key text or is the empty line
FirstIsBracket(s) ==
    /\ s # <<>>
    /\ \/ s[1].k \in {"hdr", "ahdr"}
       \/ s[1].k \in {"kv", "inl"} /\ StartsWith(s[1].keys[1], <<"[">>)

\* retval[-2:] == "\n\n": every line ends with a line break, so the text
\* ends with two of them iff it ends with an empty line that is not alone
EndsWithBlank(s) == Len(s) >= 2 /\ s[Len(s)].k = "nl"

(***************************************************************************)
(* re.match(r'^[A-Za-z0-9_-]+$', section): one or more characters of the   *)
(* class, up to the end of the string or to a line break that ends it.     *)
(***************************************************************************)
BareChars == {"a", "b", "c", "n", "u", "x", "0", "1", "6", "_", "-"}

MatchesBareKey(section) ==
    LET n == IF section # <<>> /\ section[Len(section)] = NL
             THEN Len(section) - 1 ELSE Len(section)
    IN  n >= 1 /\ \A i \in 1..n : section[i] \in BareChars

(***************************************************************************)
(* Ordered dicts keyed by dotted strings: a sequence of [key, obj].        *)
(***************************************************************************)
SameKey(p, q) == Segs(p) = Segs(q)

DictSet(d, key, obj) ==
    IF \E i \in 1..Len(d) : SameKey(d[i].key, key)
    THEN [i \in 1..Len(d) |-> IF SameKey(d[i].key, key)
                              THEN [key |-> d[i].key, obj |-> obj] ELSE d[i]]
    ELSE Append(d, [key |-> key, obj |-> obj])

(***************************************************************************)
(* TomlEncoder.dump_sections(o, sup): the pair (retstr, retdict), here the *)
(* record [err, str, dict].                                                *)
(*                                                                         *)
(* The function calls itself for every element of an array of tables and   *)
(* for every sub-table of such an element, with no guard.  depth counts    *)
(* the nested calls.  More than NumObjs nested calls on mappings hold one  *)
(* mapping twice; the inner call then repeats what the outer one did up to *)
(* it, so the nesting never ends and Python raises RecursionError.  The    *)
(* loop "while d" over the layers of sub-tables of one element never ends  *)
(* once it has run more than NumObjs layers, each further layer holding    *)
(* mappings already flattened: "Hang".                                     *)
(***************************************************************************)
Fail(e) == [err |-> e, str |-> <<>>, dict |-> <<>>]

\* arrayoftables: o[section] is a list holding at least one dict
ArrayOfTables(v) == v.t = "list" /\ \E j \in 1..Len(v.elems) : v.elems[j].t = "map"

\* qsection: the key as it is written, bare if the pattern matches it and in
\* the string formatter's quoted form otherwise (IndexError if that fails)
Qualified(section) ==
    IF MatchesBareKey(section) THEN section ELSE DumpStr(section)

\* a variant of AddAssignment that puts the line first
AddAssignmentFirst(retstr, line) == <<line>> \o retstr

\* retstr += (qsection + " = " + ...): the assignment line goes to the end
AddAssignment(retstr, line) == Append(retstr, line)

RECURSIVE dump_sections(_, _, _)
RECURSIVE SectionLoop(_, _, _, _, _)
RECURSIVE ArrayLoop(_, _, _, _, _, _)
RECURSIVE SubTableLoop(_, _, _, _, _)
RECURSIVE SubTableLayer(_, _, _, _, _, _)
RECURSIVE Requalify(_, _, _)

\* for s1 in d1: newd[dsec + "." + s1] = d1[s1]
Requalify(newd, dsec, d1) ==
    IF d1 = <<>> THEN newd
    ELSE Requalify(DictSet(newd, dsec \o Head(d1).key, Head(d1).obj), dsec, Tail(d1))

\* the text of one layer of sub-tables: the header of a sub-table, written
\* if the sub-table has text of its own, then that text
SubTableText(arraytabstr, full, s1) ==
    IF s1 # <<>> THEN arraytabstr \o <<HDR(full)>> \o s1 ELSE arraytabstr

\* for dsec in d, from the n-th key on
SubTableLayer(d, n, path, depth, arraytabstr, newd) ==
    IF n > Len(d) THEN [err |-> "none", str |-> arraytabstr, dict |-> newd]
    ELSE LET dsec == d[n].key
             full == path \o dsec
             r    == dump_sections(MapVal(d[n].obj), full, depth + 1)
         IN  IF r.err # "none" THEN Fail(r.err)
             ELSE SubTableLayer(d, n + 1, path, depth,
                                SubTableText(arraytabstr, full, r.str),
                                Requalify(newd, dsec, r.dict))

\* while d: ... d = newd
SubTableLoop(d, path, layer, depth, arraytabstr) ==
    IF d = <<>> THEN [err |-> "none", str |-> arraytabstr, dict |-> <<>>]
    ELSE IF layer > NumObjs THEN Fail("Hang")
    ELSE LET l == SubTableLayer(d, 1, path, depth, arraytabstr, <<>>)
         IN  IF l.err # "none" THEN l
             ELSE SubTableLoop(l.dict, path, layer + 1, depth, l.str)

\* the text of one element of an array of tables: its header, its own
\* text s (after the header, or after an empty line if it starts with a
\* header itself), then the layers of its sub-tables
ElementText(arraystr, path, s, tabs) ==
    arraystr \o <<AHDR(path)>>
             \o (IF s # <<>> /\ ~FirstIsBracket(s) THEN s ELSE <<>>)
             \o <<BLANK>>
             \o (IF s # <<>> /\ FirstIsBracket(s) THEN s ELSE <<>>)
             \o tabs

\* for a in o[section], from the j-th element on
ArrayLoop(elems, j, sup, qsection, depth, arraystr) ==
    IF j > Len(elems) THEN [err |-> "none", str |-> arraystr, dict |-> <<>>]
    ELSE LET path == Append(sup, Step(qsection, j))
             r    == dump_sections(elems[j], path, depth + 1)
         IN  IF r.err # "none" THEN Fail(r.err)
             ELSE LET t == SubTableLoop(r.dict, path, 1, depth, <<>>)
                  IN  IF t.err # "none" THEN Fail(t.err)
                      ELSE ArrayLoop(elems, j + 1, sup, qsection, depth,
                                     ElementText(arraystr, path, r.str, t.str))

\* for section in o, from the i-th entry on; acc = [retstr, retdict, arraystr]
SectionLoop(o, i, sup, depth, acc) ==
    IF i > Len(heap[o])
    THEN [err |-> "none", str |-> acc.retstr \o acc.arraystr, dict |-> acc.retdict]
    ELSE LET section  == heap[o][i].key
             v        == heap[o][i].val
             qsection == Qualified(section)
         IN  IF qsection = IndexError THEN Fail("IndexError")
             ELSE IF v.t # "map"
             THEN IF ArrayOfTables(v)
                  THEN LET a == ArrayLoop(v.elems, 1, sup, qsection, depth, acc.arraystr)
                       IN  IF a.err # "none" THEN Fail(a.err)
                           ELSE SectionLoop(o, i + 1, sup, depth,
                                            [acc EXCEPT !.arraystr = a.str])
                  ELSE IF v.t # "none"
                  THEN LET r == dump_value(v)
                       IN  IF r.err # "none" THEN Fail(r.err)
                           ELSE SectionLoop(o, i + 1, sup, depth,
                                  [acc EXCEPT !.retstr =
                                      AddAssignment(@, KV(qsection, r, sup, i))])
                  ELSE SectionLoop(o, i + 1, sup, depth, acc)
             ELSE IF preserve /\ v.ref \in inl
             THEN LET r == dump_inline_table(v, 1)
                  IN  IF r.err # "none" THEN Fail(r.err)
                      ELSE SectionLoop(o, i + 1, sup, depth,
                             [acc EXCEPT !.retstr =
                                 AddAssignment(@, INL(qsection, r, sup, i))])
             ELSE SectionLoop(o, i + 1, sup, depth,
                    [acc EXCEPT !.retdict = DictSet(@, <<Step(qsection, 0)>>, v.ref)])

\* o is a mapping, or an element of an array of tables that is an integer:
\* "for section in o" then raises TypeError
dump_sections(o, sup, depth) ==
    IF o.t = "map"
    THEN IF depth > NumObjs THEN Fail("RecursionError")
         ELSE SectionLoop(o.ref, 1, sup, depth,
                          [retstr |-> <<>>, retdict |-> <<>>, arraystr |-> <<>>])
    ELSE Fail("TypeError")

(***************************************************************************)
(* dumps: the layering driver and its cycle guard.                         *)
(***************************************************************************)
\* section_ids = [id(section) for section in sections.values()]
SectionIds(secs) == [i \in 1..Len(secs) |-> secs[i].obj]

\* for outer_obj in outer_objs: if outer_obj in section_ids: raise
CircularReference(outer, section_ids) ==
    \E i \in 1..Len(outer) : outer[i] \in Range(section_ids)

\* a variant of SectionText that writes the header after the section's text
SectionTextHeaderLast(ret, section, addtoretval, addtosections) ==
    IF addtoretval # <<>> \/ (addtoretval = <<>> /\ addtosections = <<>>)
    THEN ret \o (IF ret # <<>> /\ ~EndsWithBlank(ret) THEN <<BLANK>> ELSE <<>>)
             \o addtoretval \o <<HDR(section)>>
    ELSE ret

\* the header of a section and its text, after an empty line unless the
\* text so far is empty or ends with one; nothing for a section that has
\* no text of its own but has sub-sections
SectionText(ret, section, addtoretval, addtosections) ==
    IF addtoretval # <<>> \/ (addtoretval = <<>> /\ addtosections = <<>>)
    THEN ret \o (IF ret # <<>> /\ ~EndsWithBlank(ret) THEN <<BLANK>> ELSE <<>>)
             \o <<HDR(section)>> \o addtoretval
    ELSE ret

\* for section in sections, from the n-th key on
RECURSIVE LayerLoop(_, _, _, _)
LayerLoop(secs, n, ret, newsections) ==
    IF n > Len(secs) THEN [err |-> "none", str |-> ret, dict |-> newsections]
    ELSE LET section == secs[n].key
             r       == dump_sections(MapVal(secs[n].obj), section, 1)
         IN  IF r.err # "none" THEN Fail(r.err)
             ELSE LayerLoop(secs, n + 1,
                            SectionText(ret, section, r.str, r.dict),
                            Requalify(newsections, section, r.dict))

(***************************************************************************)
(* The caller builds the value tree: o[k] = v, where v may be or hold      *)
(* dicts created for it, some of them InlineTableDict instances.           *)
(***************************************************************************)
\* o[k] = v; the dicts of v that are new are all InlineTableDict instances
\* (tag) or all plain dicts
SetItem(o, k, v, tag) ==
    /\ pc = "build"
    /\ o \in 1..nalloc
    /\ k \notin KeysOf(o)
    /\ LET m == Max(Refs(v) \cup {nalloc})
       IN  /\ Refs(v) \cup (1..nalloc) = 1..m
           /\ tag => m > nalloc
           /\ nalloc' = m
           /\ inl' = IF tag THEN inl \cup ((nalloc + 1)..m) ELSE inl
    /\ heap' = [heap EXCEPT ![o] = Append(@, [key |-> k, val |-> v])]
    /\ UNCHANGED <<preserve, pc, retval, sections, outer_objs, status,
                   strIn, strOut>>

\* dumps(obj, encoder), lines 69-71: the encoder is the default one or the
\* inline-preserving variant (which differs from it only on a tree that
\* holds an InlineTableDict)
Dumps(p) ==
    /\ pc = "build"
    /\ p => inl # {}
    /\ preserve' = p
    /\ pc' = "call"
    /\ UNCHANGED <<heap, inl, nalloc, retval, sections, outer_objs, status,
                   strIn, strOut>>

\* lines 72-74: the root is flattened at the empty prefix
Flatten ==
    /\ pc = "call"
    /\ LET r == dump_sections(MapVal(Obj), <<>>, 1)
       IN  IF r.err # "none"
           THEN /\ status' = r.err
                /\ pc' = "done"
                /\ UNCHANGED <<retval, sections, outer_objs>>
           ELSE /\ retval' = r.str
                /\ sections' = r.dict
                /\ outer_objs' = <<Obj>>
                /\ pc' = "loop"
                /\ UNCHANGED status
    /\ UNCHANGED <<heap, inl, nalloc, preserve, strIn, strOut>>

\* lines 75-94: one turn of "while sections"
Layer ==
    /\ pc = "loop"
    /\ sections # <<>>
    /\ IF CircularReference(outer_objs, SectionIds(sections))
       THEN /\ status' = "ValueError"
            /\ pc' = "done"
            /\ UNCHANGED <<retval, sections, outer_objs>>
       ELSE LET r == LayerLoop(sections, 1, retval, <<>>)
            IN  IF r.err # "none"
                THEN /\ status' = r.err
                     /\ pc' = "done"
                     /\ UNCHANGED <<retval, sections, outer_objs>>
                ELSE /\ retval' = r.str
                     /\ sections' = r.dict
                     /\ outer_objs' = outer_objs \o SectionIds(sections)
                     /\ UNCHANGED <<status, pc>>
    /\ UNCHANGED <<heap, inl, nalloc, preserve, strIn, strOut>>

\* line 95: return retval
Return ==
    /\ pc = "loop"
    /\ sections = <<>>
    /\ status' = "ok"
    /\ pc' = "done"
    /\ UNCHANGED <<heap, inl, nalloc, preserve, retval, sections,
                   outer_objs, strIn, strOut>>

Init ==
    /\ heap = [o \in Objs |-> <<>>]
    /\ inl = {}
    /\ nalloc = 1
    /\ preserve = FALSE
    /\ pc = "build"
    /\ retval = <<>>
    /\ sections = <<>>
    /\ outer_objs = <<>>
    /\ status = "none"
    /\ strIn = <<>>
    /\ strOut = <<>>

\* dumps with the default encoder, on a tree of plain dicts
Next ==
    \/ \E o \in Objs, k \in Keys, v \in Affordable : SetItem(o, k, v, FALSE)
    \/ Dumps(FALSE)
    \/ Flatten
    \/ Layer
    \/ Return

Spec == Init /\ [][Next]_vars

\* dumps with either encoder, on a tree that may hold InlineTableDict
\* instances
NextInline ==
    \/ \E o \in Objs, k \in Keys, v \in Affordable, tag \in BOOLEAN :
            SetItem(o, k, v, tag)
    \/ \E p \in BOOLEAN : Dumps(p)
    \/ Flatten
    \/ Layer
    \/ Return

SpecInline == Init /\ [][NextInline]_vars

(***************************************************************************)
(* The string formatter on its own: every string of up to MaxStrLen        *)
(* characters of StrChars is formatted.                                    *)
(***************************************************************************)
StrChars == {BS, "x", "6", "a", CTL, DQ, SQ}

Strings == UNION {[1..n -> StrChars] : n \in 0..MaxStrLen}

CallDumpStr ==
    /\ pc = "str"
    /\ strOut' = DumpStr(strIn)
    /\ pc' = "strdone"
    /\ UNCHANGED <<heap, inl, nalloc, preserve, retval, sections,
                   outer_objs, status, strIn>>

InitStr ==
    /\ heap = [o \in Objs |-> <<>>]
    /\ inl = {}
    /\ nalloc = 1
    /\ preserve = FALSE
    /\ pc = "str"
    /\ retval = <<>>
    /\ sections = <<>>
    /\ outer_objs = <<>>
    /\ status = "none"
    /\ strIn \in Strings
    /\ strOut = <<>>

NextStr == CallDumpStr

SpecStr == InitStr /\ [][NextStr]_vars

(***************************************************************************)
(* Vocabulary of the properties: reachability in the value tree.           *)
(***************************************************************************)
\* the mappings that are values of o's keys
MapSuccs(o) == {heap[o][i].val.ref :
                    i \in {j \in 1..Len(heap[o]) : heap[o][j].val.t = "map"}}

\* the mappings that are values of o's keys or elements of its lists
AllSuccs(o) == UNION {Refs(heap[o][i].val) : i \in 1..Len(heap[o])}

Succs(o, mapsOnly) == IF mapsOnly THEN MapSuccs(o) ELSE AllSuccs(o)

RECURSIVE Reach(_, _, _)
Reach(S, mapsOnly, n) ==
    IF n = 0 THEN S
    ELSE Reach(S \cup UNION {Succs(o, mapsOnly) : o \in S}, mapsOnly, n - 1)

\* the mappings reachable from o, o included
ReachFrom(o, mapsOnly) == Reach({o}, mapsOnly, NumObjs)

\* o is reachable from itself
OnCycle(o, mapsOnly) == o \in Reach(Succs(o, mapsOnly), mapsOnly, NumObjs)

\* a mapping reached from the root through mapping-valued keys only lies on
\* a cycle of mapping-valued keys
MappingCycle == \E o \in ReachFrom(Obj, TRUE) : OnCycle(o, TRUE)

\* some container of the tree is reachable from itself
AnyCycle == \E o \in ReachFrom(Obj, FALSE) : OnCycle(o, FALSE)

\* a list that holds a mapping and something that is not one
MixedArray(v) == ArrayOfTables(v) /\ \E j \in 1..Len(v.elems) : v.elems[j].t # "map"

IsHeader(l)     == l.k \in {"hdr", "ahdr"}
IsAssignment(l) == l.k \in {"kv", "inl"}

StrictPrefix(p, q) == Len(p) < Len(q) /\ Take(q, Len(p)) = p

(***************************************************************************)
(* C1: with the default encoder, for a tree in which a mapping reached     *)
(* from the root through mapping-valued keys lies on a cycle of            *)
(* mapping-valued keys (any cycle length, any depth), dumps ends by        *)
(* raising ValueError and returns no text.                                 *)
(***************************************************************************)
C1_MappingCycleRaisesValueError ==
    (pc = "done" /\ MappingCycle) => status = "ValueError"

(***************************************************************************)
(* C2: whenever some container of the tree is reachable from itself, also  *)
(* through an array of tables or below an element of one, dumps ends by    *)
(* raising ValueError (not by exhausting the stack, and not never).        *)
(***************************************************************************)
C2_EveryCycleRaisesValueError ==
    (pc = "done" /\ AnyCycle) => status = "ValueError"

(***************************************************************************)
(* C3: dumps raises ValueError only if some container of the tree is       *)
(* reachable from itself: on a tree without a cycle, also one that holds   *)
(* the same mapping at two places, the guard does not fire.                *)
(***************************************************************************)
C3_ValueErrorOnlyOnCycle ==
    (pc = "done" /\ ~AnyCycle) => status # "ValueError"

(***************************************************************************)
(* Vocabulary of the properties: a TOML basic string read back.  Inside    *)
(* the quotes \\ is a backslash, \" a quote, \n a line break and \uXXXX    *)
(* the character of that code point; any other escape, a bare quote and a  *)
(* bare control character are not TOML.  "?" stands for what is not TOML   *)
(* and for a character no argument of the model holds.                     *)
(***************************************************************************)
RECURSIVE Unescape(_)
Unescape(s) ==
    IF s = <<>> THEN <<>>
    ELSE IF s[1] = BS
    THEN IF Len(s) >= 2 /\ s[2] \in {BS, DQ} THEN <<s[2]>> \o Unescape(Drop(s, 2))
         ELSE IF StartsWith(s, <<BS, "n">>) THEN <<NL>> \o Unescape(Drop(s, 2))
         ELSE IF StartsWith(s, <<BS, "u", "0", "0", "0", "1">>)
         THEN <<CTL>> \o Unescape(Drop(s, 6))
         ELSE IF Len(s) >= 6 /\ s[2] = "u" THEN <<"?">> \o Unescape(Drop(s, 6))
         ELSE <<"?">> \o Unescape(Tail(s))
    ELSE IF s[1] \in {DQ, CTL, NL} THEN <<"?">> \o Unescape(Tail(s))
    ELSE <<s[1]>> \o Unescape(Tail(s))

TomlBasicString(t) ==
    IF Len(t) >= 2 /\ t[1] = DQ /\ t[Len(t)] = DQ
    THEN Unescape(SubSeq(t, 2, Len(t) - 1))
    ELSE <<"?">>

(***************************************************************************)
(* C4: the literal _dump_str returns, read with the escapes of a TOML      *)
(* basic string, denotes the argument: a backslash followed by x stays a   *)
(* backslash followed by x, and a control character comes back as itself.  *)
(***************************************************************************)
C4_LiteralDenotesArgument ==
    (pc = "strdone" /\ strOut # IndexError) => TomlBasicString(strOut) = strIn

(***************************************************************************)
(* C5: an argument made of plain characters, then a run of exactly k       *)
(* backslashes, then x and two hex digits is written as the plain          *)
(* characters, k backslashes, then u00 if k is odd and x if k is even,     *)
(* then the digits - whether or not plain characters precede the run.      *)
(***************************************************************************)
Backslashes(k) == [i \in 1..k |-> BS]

C5_ParityOfRunDecides ==
    pc = "strdone" =>
        \A k \in 1..MaxStrLen, n \in 0..MaxStrLen :
            ( /\ Len(strIn) = n + k + 3
              /\ \A i \in 1..n : strIn[i] \in {"a", "6"}
              /\ SubSeq(strIn, n + 1, n + k) = Backslashes(k)
              /\ SubSeq(strIn, n + k + 1, n + k + 3) = <<"x", "6", "6">> )
            => strOut = <<DQ>> \o Take(strIn, n + k)
                        \o (IF k % 2 = 1 THEN <<"u", "0", "0">> ELSE <<"x">>)
                        \o <<"6", "6", DQ>>

(***************************************************************************)
(* C6: for a tree without a cycle whose root has a key with a list that    *)
(* holds both mappings and other values, dumps returns text, with one      *)
(* array-of-tables header for every element of that list.                  *)
(***************************************************************************)
C6_MixedListIsRendered ==
    (pc = "done" /\ ~AnyCycle /\ \E i \in 1..Len(heap[Obj]) : MixedArray(heap[Obj][i].val))
    => /\ status = "ok"
       /\ \A i \in 1..Len(heap[Obj]) :
            LET e == heap[Obj][i]
            IN  MixedArray(e.val) =>
                    \A j \in 1..Len(e.val.elems) :
                        AHDR(<<Step(Qualified(e.key), j)>>) \in Range(retval)

(***************************************************************************)
(* C7: every key text of the document - a segment of a header, the key of  *)
(* an assignment, a key inside an inline table - is a bare key (one or     *)
(* more of A-Z a-z 0-9 _ -) or the string formatter's quoted form of a     *)
(* key.                                                                    *)
(***************************************************************************)
BareKey(t) == t # <<>> /\ \A i \in 1..Len(t) : t[i] \in BareChars

C7_KeysBareOrQuoted ==
    \A n \in 1..Len(retval) : \A m \in 1..Len(retval[n].keys) :
        \/ BareKey(retval[n].keys[m])
        \/ \E k \in Keys : retval[n].keys[m] = DumpStr(k)

(***************************************************************************)
(* C8: at every level - the root, a nested table, an element of an array   *)
(* of tables - the assignment lines of one mapping stand in the text in    *)
(* the order in which the mapping iterates over its keys.                  *)
(***************************************************************************)
C8_AssignmentsInIterationOrder ==
    \A i, j \in 1..Len(retval) :
        ( /\ i < j
          /\ IsAssignment(retval[i]) /\ IsAssignment(retval[j])
          /\ retval[i].at = retval[j].at )
        => retval[i].ix < retval[j].ix

\* text has been returned in which a mapping below the root - an element of
\* an array of tables or a nested table - has two assignment lines
C8_Witness ==
    /\ status = "ok"
    /\ \E i, j \in 1..Len(retval) :
          /\ i < j
          /\ IsAssignment(retval[i]) /\ IsAssignment(retval[j])
          /\ retval[i].at = retval[j].at
          /\ retval[i].at # <<>>

(***************************************************************************)
(* C9: whenever the text holds a header for a place p and a header for a   *)
(* place that extends p (within the same table instance), the header for   *)
(* p comes first.                                                          *)
(***************************************************************************)
C9_HeaderBeforeItsExtensions ==
    \A i, j \in 1..Len(retval) :
        (i < j /\ IsHeader(retval[i]) /\ IsHeader(retval[j]))
        => ~StrictPrefix(retval[j].at, retval[i].at)

\* text has been returned that holds the header of a table and, after it,
\* the header of a table nested in it
C9_Witness ==
    /\ status = "ok"
    /\ \E i, j \in 1..Len(retval) :
          /\ i < j
          /\ retval[i].k = "hdr" /\ retval[j].k = "hdr"
          /\ StrictPrefix(retval[i].at, retval[j].at)

(***************************************************************************)
(* C10: in returned text every nested mapping that has no assignment text  *)
(* and no nested mappings, empty ones included, has its header - also a    *)
(* sub-table of an element of an array of tables.                          *)
(***************************************************************************)
\* the nested tables of the mapping o, which stands at the place at: each
\* with its place
RECURSIVE Tables(_, _, _)
Tables(o, at, fuel) ==
    IF fuel = 0 THEN {}
    ELSE UNION {
        LET e    == heap[o][i]
            here == Append(at, Step(Qualified(e.key), 0))
        IN  IF e.val.t = "map"
            THEN {[at |-> here, ref |-> e.val.ref]}
                 \cup Tables(e.val.ref, here, fuel - 1)
            ELSE IF ArrayOfTables(e.val)
            THEN UNION {
                    IF e.val.elems[j].t = "map"
                    THEN Tables(e.val.elems[j].ref,
                                Append(at, Step(Qualified(e.key), j)), fuel - 1)
                    ELSE {} : j \in 1..Len(e.val.elems)}
            ELSE {} : i \in 1..Len(heap[o])}

\* no assignment text and no nested mapping: no entry, or entries of None
Barren(o) == \A i \in 1..Len(heap[o]) : heap[o][i].val.t = "none"

C10_BarrenTableHasHeader ==
    status = "ok" =>
        \A t \in Tables(Obj, <<>>, NumObjs) :
            Barren(t.ref) => HDR(t.at) \in Range(retval)

(***************************************************************************)
(* C11: _dump_str is total: for every argument, the empty string and       *)
(* strings that begin with or hold a control character included, it        *)
(* returns a text that starts and ends with a double quote; it never       *)
(* raises IndexError.                                                      *)
(***************************************************************************)
C11_DumpStrTotal ==
    pc = "strdone" =>
        /\ strOut # IndexError
        /\ Len(strOut) >= 2
        /\ strOut[1] = DQ
        /\ strOut[Len(strOut)] = DQ

====
